---- MODULE Spec2Model ----
(***************************************************************************)
(* A model of qetch's fetch engine: BaseDownloader.download (thread pool,  *)
(* one fragment coordinator per fragment), HTTPDownloader.handle_download  *)
(* (probe, pre-allocation, range partition, one chunk fetcher per range),  *)
(* HTTPDownloader.handle_chunk (open, seek, ranged GET, streamed writes,   *)
(* progress increments), BaseDownloader.handle_progress and the pure range *)
(* partitioner BaseDownloader._calc_ranges.                                *)
(*                                                                         *)
(* handle_download calls self.calculate_ranges and handle_chunk updates    *)
(* self.progress_state; the only definitions of these in the sources are   *)
(* _calc_ranges and progress_store, which is what the model uses for them. *)
(* A pool worker that picks handle_download runs the coroutine to its end, *)
(* with download()'s max_connections as its connections argument.         *)
(***************************************************************************)
EXTENDS Integers, Sequences, FiniteSets, TLC

\* ------------------------------------------------------------------ bounds
\* Range partitioner inputs explored by SpecRanges.
MaxRangeLen == 12
MaxRangeConn == 8
\* Engine inputs explored by Spec.
MaxFrags == 2
MaxLen == 3
MaxConn == 2
\* Largest number of body bytes one iteration of response.body delivers.
IncrementSize == 2
\* The longer resource and the connection count explored by SpecWide.
WideLen == 5
WideConn == 3
\* AuthRegistry instances constructed in SpecAuth.
MaxInstances == 3
\* The paths, and the longest path list, merge is applied to in SpecMerge.
MaxPaths == 3
MaxMergeLen == 4
\* The longest fragments argument given to a Content in SpecContent.
MaxContentLen == 6

\* ------------------------------------------------------- pure definitions
Min(a, b) == IF a < b THEN a ELSE b

RECURSIVE SumSeq(_)
SumSeq(s) == IF s = <<>> THEN 0 ELSE Head(s) + SumSeq(Tail(s))

\* list(range(0, content_length, step)) + [content_length]
RangePoints(content_length, step) ==
    LET n == (content_length + step - 1) \div step
    IN  [i \in 1..n |-> (i - 1) * step] \o <<content_length>>

\* list(zip(start, end)) after next(end, None): consecutive pairs.
ZipPairs(points) ==
    [i \in 1..(Len(points) - 1) |-> <<points[i], points[i + 1]>>]

\* if len(ranges) > max_connections: the last two ranges become one.
MergeTail(ranges, max_connections) ==
    IF Len(ranges) > max_connections
    THEN [i \in 1..(Len(ranges) - 1) |->
            IF i = Len(ranges) - 1
            THEN <<ranges[i][1], ranges[Len(ranges)][2]>>
            ELSE ranges[i]]
    ELSE ranges

\* BaseDownloader._calc_ranges: range() raises ValueError on a zero step.
_calc_ranges(content_length, max_connections) ==
    LET step == content_length \div max_connections
    IN  IF step = 0
        THEN [error |-> "ValueError", ranges |-> <<>>]
        ELSE [error |-> "none",
              ranges |-> MergeTail(ZipPairs(RangePoints(content_length, step)),
                                   max_connections)]

\* The name handle_download calls the partitioner by.
calculate_ranges(content_length, connections) ==
    _calc_ranges(content_length, connections)

\* ------------------------------------------------------------ the server
\* A fragment url is identified with what the server answers for it: the
\* status of HEAD and GET, the body length (the Content-Length header) and
\* the Accept-Ranges header ("absent": the header is not sent).
AcceptValues == {"bytes", "none", "absent"}
Urls == [status : {200, 404}, length : 1..MaxLen, accept : AcceptValues]

\* The body served for url: byte i of the resource for a 200, the bytes of
\* an error page (negative, so never equal to content or to a hole) otherwise.
BodyOf(url) ==
    [i \in 1..url.length |-> IF url.status = 200 THEN i ELSE 0 - i]

NoRange == <<>>

\* The body of the response to GET url with the session's range header:
\* "bytes=s-e" names the bytes s..e inclusive, cut at the end of the resource;
\* a non-200 answer carries its whole error page whatever the header says.
ResponseBody(url, range) ==
    IF range = NoRange \/ url.status # 200
    THEN BodyOf(url)
    ELSE SubSeq(BodyOf(url), range[1] + 1, Min(range[2], url.length - 1) + 1)

\* ------------------------------------------------------------------ files
NoFile == [exists |-> FALSE, data |-> <<>>]
FileOf(bytes) == [exists |-> TRUE, data |-> bytes]
Zeros(n) == [i \in 1..n |-> 0]

\* stream.write(chunk) at stream position pos: a position past the end of
\* the file leaves a hole of zero bytes before the written bytes.
WriteAt(data, pos, chunk) ==
    LET newlen == IF pos + Len(chunk) > Len(data)
                  THEN pos + Len(chunk) ELSE Len(data)
    IN  [i \in 1..newlen |->
            IF i > pos /\ i <= pos + Len(chunk) THEN chunk[i - pos]
            ELSE IF i <= Len(data) THEN data[i]
            ELSE 0]

\* ------------------------------------------------------------------ dicts
\* A dict is the set of its (key, value) items.
Keys(d) == {item[1] : item \in d}
Get(d, k) == (CHOOSE item \in d : item[1] = k)[2]
Put(d, k, v) == {item \in d : item[1] # k} \cup {<<k, v>>}
Del(d, k) == {item \in d : item[1] # k}

\* ------------------------------------------------------------------ state
VARIABLES
    fragments,        \* content.fragments: the ordered fragment urls
    max_fragments,    \* download(max_fragments=...)
    max_connections,  \* download(max_connections=...)
    progress_hook,    \* whether download() was given a callable progress_hook
    update_delay,     \* download(update_delay=...), in tenths of a second
    pc,               \* position of the thread that called download()
    raised,           \* the exception download() is raising ("none" if none)
    collected,        \* the future.result() values gathered for merge
    merge_args,       \* whether merge() was called, and the list it was given
    download_state,   \* self.download_state: download id -> DownloadState
    progress_store,   \* self.progress_store: download id -> bytes counted
    handler,          \* handle_progress task: its position and total
    future,           \* each fragment's future: state, result, exception
    frag,             \* handle_download's locals, per fragment
    chunks,           \* handle_chunk's locals, per fragment and range
    files,            \* the file at os.path.join(temporary_dir, str(idx))
    temporary_dir,    \* whether the TemporaryDirectory exists
    dest,             \* the file at to_path
    result,           \* what download() returned ("none" before it returns)
    on_progress,      \* the on_progress signal: its receiver, what it sent
    progress_high,    \* the highest value the progress counter has held
    other,            \* a second download() call: its position and its hook
    auth,             \* SpecAuth: the AuthRegistry instances and their dicts
    lookup,           \* SpecLookup: get_extractor's arguments and position
    calc              \* SpecRanges: the partitioner's arguments and result

vars == <<fragments, max_fragments, max_connections, progress_hook, update_delay, pc, raised,
          collected, merge_args, download_state, progress_store, progress_high, handler,
          future, frag, chunks, files, temporary_dir, dest, calc, on_progress, result,
          other, auth, lookup>>

argvars == <<fragments, max_fragments, max_connections, progress_hook, update_delay>>

\* update_delay: float=0.1
default_update_delay == 1

\* str(uuid.uuid4()): the one download id of the modelled call.
download_id == "id"

\* None, where a path is expected.
NonePath == 0 - 1

\* merge_args: the list merge() was given, what it returned (merged) or
\* raised, and how many times it was called.
NotCalled == [called |-> FALSE, paths |-> <<>>, calls |-> 0, raised |-> "none",
              merged |-> NonePath]
\* first: whether the future was the first of the download to fail.
NoFuture == [state |-> "none", result |-> 0, exception |-> "none", first |-> FALSE]
NoFrag == [pc |-> "idle", content_length |-> 0, accept_ranges |-> TRUE, connections |-> 0,
           ranges |-> <<>>, range_header |-> NoRange, streamed |-> 0]
N == Len(fragments)
Frags == 1..N

\* No value yet: the counter has held none, the signal has sent none.
NoValue == 0 - 1
Max(a, b) == IF a > b THEN a ELSE b

\* on_progress: whether progress_hook is connected to it, the last `current`
\* it sent, and how many times it sent current = total.
NotConnected == [connected |-> FALSE, last |-> NoValue, totals |-> 0]

\* os.path.join(temporary_dir, str(fragment_idx)), named by fragment_idx.
PathOf(f) == f - 1

CalcIdle == [content_length |-> 1, max_connections |-> 1, called |-> FALSE,
             result |-> [error |-> "none", ranges |-> <<>>]]

RECURSIVE SeqsUpTo(_, _)
SeqsUpTo(S, n) ==
    IF n = 0 THEN {<<>>}
    ELSE LET shorter == SeqsUpTo(S, n - 1)
         IN  shorter \cup {Append(s, x) : s \in {t \in shorter : Len(t) = n - 1},
                                          x \in S}

\* Nothing of a download exists yet: no state, no counter, no task, no file.
Fresh ==
    /\ raised = "none"
    /\ download_state = {}
    /\ progress_store = {}
    /\ handler = [pc |-> "none", total |-> 0]
    /\ future = [f \in 1..Len(fragments) |-> NoFuture]
    /\ frag = [f \in 1..Len(fragments) |-> NoFrag]
    /\ chunks = [f \in 1..Len(fragments) |-> <<>>]
    /\ files = [f \in 1..Len(fragments) |-> NoFile]
    /\ temporary_dir = FALSE
    /\ dest = NoFile
    /\ result = "none"
    /\ on_progress = NotConnected
    /\ progress_high = NoValue

\* download() is about to be called with a content of one of the fragment
\* lists and with one of the option values.
InitWith(fragmentLists, fragmentCounts, connectionCounts, hooks) ==
    /\ fragments \in fragmentLists
    /\ max_fragments \in fragmentCounts
    /\ max_connections \in connectionCounts
    /\ progress_hook \in hooks
    /\ update_delay = default_update_delay
    /\ pc = "start"
    /\ collected = <<>>
    /\ merge_args = NotCalled
    /\ Fresh

\* No AuthRegistry has been constructed: the one dict there is is the
\* class's __shared_state.  get_extractor has not been called.
NoRead == [key |-> "none", value |-> "none"]
NoAuth == [dicts |-> <<{}>>, refs |-> <<>>, expected |-> {}, ret |-> NoRead]
NoResult == [kind |-> "none", of |-> "none"]
NoLookup == [handles |-> {}, init |-> FALSE, idx |-> 0, result |-> NoResult]

\* ------------------------------------------------- download(): main thread
\* Content.get_size: the sum of the fragments' Content-Length headers.
get_size == SumSeq([f \in 1..N |-> fragments[f].length])

\* A variant of merge that is not implemented and returns None.
mergeNone(ordered_filepaths) == NonePath

\* BaseExtractor.merge (ImgurExtractor.merge is the same): the first path.
merge(ordered_filepaths) ==
    IF Len(ordered_filepaths) > 0 THEN ordered_filepaths[1] ELSE NonePath

\* ThreadPoolExecutor(max_workers=max_fragments + 1)
max_workers == max_fragments + 1
HandlerActive == handler.pc \notin {"none", "queued", "done"}
ActiveWorkers ==
    Cardinality({f \in Frags : future[f].state = "running"})
        + (IF HandlerActive THEN 1 ELSE 0)

\* The asserts on max_fragments and max_connections fail.
DownloadReject ==
    /\ pc = "start"
    /\ (max_fragments <= 0 \/ max_connections <= 0)
    /\ pc' = "raised"
    /\ raised' = "AssertionError"
    /\ UNCHANGED <<argvars, collected, merge_args, download_state,
                   progress_store, progress_high, handler, future, frag, chunks, files,
                   temporary_dir, dest, calc, on_progress, result,
                   other, auth, lookup>>

\* A variant of DownloadSubmit without the asserts on max_fragments and
\* max_connections.
DownloadSubmitUnchecked ==
    /\ pc = "start"
    /\ temporary_dir' = TRUE
    /\ handler' = IF progress_hook
                  THEN [pc |-> "queued", total |-> get_size]
                  ELSE handler
    /\ on_progress' = IF progress_hook
                      THEN [on_progress EXCEPT !.connected = TRUE]
                      ELSE on_progress
    /\ future' = [f \in Frags |-> [NoFuture EXCEPT !.state = "pending"]]
    /\ pc' = "polling"
    /\ UNCHANGED <<argvars, raised, collected, merge_args, download_state,
                   progress_store, progress_high, frag, chunks, files, dest,
                   calc, result,
                   other, auth, lookup>>

\* The id is minted, the temporary directory and the executor are created,
\* handle_progress is submitted when a hook is given, then one handle_download
\* per fragment, in fragment order.
DownloadSubmit ==
    /\ pc = "start"
    /\ max_fragments > 0 /\ max_connections > 0
    /\ temporary_dir' = TRUE
    /\ handler' = IF progress_hook
                  THEN [pc |-> "queued", total |-> get_size]
                  ELSE handler
    /\ on_progress' = IF progress_hook
                      THEN [on_progress EXCEPT !.connected = TRUE]
                      ELSE on_progress
    /\ future' = [f \in Frags |-> [NoFuture EXCEPT !.state = "pending"]]
    /\ pc' = "polling"
    /\ UNCHANGED <<argvars, raised, collected, merge_args, download_state,
                   progress_store, progress_high, frag, chunks, files, dest,
                   calc, result,
                   other, auth, lookup>>

\* while all(future.running() ...): sleep.  The loop is left as soon as one
\* future is not running (pending or finished); FINISHED is then stored.
DownloadPoll ==
    /\ pc = "polling"
    /\ ~(\A f \in Frags : future[f].state = "running")
    /\ download_state' = Put(download_state, download_id, "finished")
    /\ pc' = "collecting"
    /\ UNCHANGED <<argvars, raised, collected, merge_args, progress_store, progress_high,
                   handler, future, frag, chunks, files, temporary_dir, dest,
                   calc, on_progress, result,
                   other, auth, lookup>>

\* time.sleep(update_delay) in the polling loop raises ValueError for a
\* negative delay: the except branch stores STOPPED and re-raises.
DownloadPollRaise ==
    /\ pc = "polling"
    /\ \A f \in Frags : future[f].state = "running"
    /\ update_delay < 0
    /\ download_state' = Put(download_state, download_id, "stopped")
    /\ raised' = "ValueError"
    /\ pc' = "exiting"
    /\ UNCHANGED <<argvars, collected, merge_args, progress_store, progress_high,
                   handler, future, frag, chunks, files, temporary_dir, dest,
                   calc, on_progress, result,
                   other, auth, lookup>>

\* A variant of DownloadResult that gathers the results in the order the
\* futures complete (as_completed) instead of the order of download_futures.
DownloadResultAsCompleted ==
    /\ pc = "collecting"
    /\ Len(collected) < N
    /\ \E f \in Frags :
          /\ future[f].state = "done"
          /\ \A i \in 1..Len(collected) : collected[i] # future[f].result
          /\ collected' = Append(collected, future[f].result)
    /\ UNCHANGED <<argvars, pc, raised, merge_args, download_state,
                   progress_store, progress_high, handler, future, frag, chunks, files,
                   temporary_dir, dest, calc, on_progress, result,
                   other, auth, lookup>>

\* future.result() of the next future, in the order of download_futures.
DownloadResult ==
    /\ pc = "collecting"
    /\ Len(collected) < N
    /\ future[Len(collected) + 1].state = "done"
    /\ collected' = Append(collected, future[Len(collected) + 1].result)
    /\ UNCHANGED <<argvars, pc, raised, merge_args, download_state,
                   progress_store, progress_high, handler, future, frag, chunks, files,
                   temporary_dir, dest, calc, on_progress, result,
                   other, auth, lookup>>

\* future.result() re-raises the exception of a failed handle_download.
DownloadResultRaise ==
    /\ pc = "collecting"
    /\ Len(collected) < N
    /\ future[Len(collected) + 1].state = "failed"
    /\ raised' = future[Len(collected) + 1].exception
    /\ pc' = "exiting"
    /\ UNCHANGED <<argvars, collected, merge_args, download_state,
                   progress_store, progress_high, handler, future, frag, chunks, files,
                   temporary_dir, dest, calc, on_progress, result,
                   other, auth, lookup>>

\* A variant of DownloadMerge that calls merge and leaves its result where
\* it is, without moving it to to_path.
DownloadMergeNoMove ==
    /\ pc = "collecting"
    /\ Len(collected) = N
    /\ merge_args' = [called |-> TRUE, paths |-> collected,
                      calls |-> merge_args.calls + 1,
                      raised |-> "none",
                      merged |-> merge(collected)]
    /\ pc' = "exiting"
    /\ UNCHANGED <<argvars, raised, collected, download_state, progress_store,
                   progress_high, handler, future, frag, chunks, files,
                   temporary_dir, dest, calc, on_progress, result,
                   other, auth, lookup>>

\* shutil.move(content.extractor.merge([...]), to_path)
DownloadMerge ==
    /\ pc = "collecting"
    /\ Len(collected) = N
    /\ merge_args' = [called |-> TRUE, paths |-> collected,
                      calls |-> merge_args.calls + 1,
                      raised |-> "none",
                      merged |-> merge(collected)]
    /\ LET merged == merge(collected) + 1
       IN  /\ dest' = files[merged]
           /\ files' = [files EXCEPT ![merged] = NoFile]
    /\ pc' = "exiting"
    /\ UNCHANGED <<argvars, raised, collected, download_state, progress_store,
                   progress_high, handler, future, frag, chunks, temporary_dir,
                   calc, on_progress, result,
                   other, auth, lookup>>

\* A variant of DownloadMergeRaise in which download() catches what merge
\* raised and raises an error of its own in its place.
DownloadMergeRaiseWrapped ==
    /\ pc = "collecting"
    /\ Len(collected) = N
    /\ merge_args' = [called |-> TRUE, paths |-> collected,
                      calls |-> merge_args.calls + 1,
                      raised |-> "MergeError",
                      merged |-> NonePath]
    /\ raised' = "DownloadError"
    /\ pc' = "exiting"
    /\ UNCHANGED <<argvars, collected, download_state, progress_store,
                   progress_high, handler, future, frag, chunks, files,
                   temporary_dir, dest, calc, on_progress, result,
                   other, auth, lookup>>

\* content.extractor.merge(...) raises: an extractor may supply its own
\* merge; shutil.move is not reached.
DownloadMergeRaise ==
    /\ pc = "collecting"
    /\ Len(collected) = N
    /\ merge_args' = [called |-> TRUE, paths |-> collected,
                      calls |-> merge_args.calls + 1,
                      raised |-> "MergeError",
                      merged |-> NonePath]
    /\ raised' = "MergeError"
    /\ pc' = "exiting"
    /\ UNCHANGED <<argvars, collected, download_state, progress_store,
                   progress_high, handler, future, frag, chunks, files,
                   temporary_dir, dest, calc, on_progress, result,
                   other, auth, lookup>>

\* A variant of DownloadExit that removes the temporary directory only when
\* download() returns, and keeps it when an exception leaves the with block.
DownloadExitKeepOnError ==
    /\ pc = "exiting"
    /\ \A f \in Frags : future[f].state \in {"done", "failed"}
    /\ handler.pc \in {"none", "done"}
    /\ temporary_dir' = (raised # "none")
    /\ files' = IF raised = "none" THEN [f \in Frags |-> NoFile] ELSE files
    /\ pc' = IF raised = "none" THEN "returned" ELSE "raised"
    /\ result' = IF raised = "none" THEN "to_path" ELSE result
    /\ UNCHANGED <<argvars, raised, collected, merge_args, download_state,
                   progress_store, progress_high, handler, future, frag, chunks,
                   dest, calc, on_progress,
                   other, auth, lookup>>

\* Leaving the with blocks: the executor waits for every submitted task,
\* then the temporary directory is removed with all it holds.
DownloadExit ==
    /\ pc = "exiting"
    /\ \A f \in Frags : future[f].state \in {"done", "failed"}
    /\ handler.pc \in {"none", "done"}
    /\ temporary_dir' = FALSE
    /\ files' = [f \in Frags |-> NoFile]
    /\ pc' = IF raised = "none" THEN "returned" ELSE "raised"
    /\ result' = IF raised = "none" THEN "to_path" ELSE result
    /\ UNCHANGED <<argvars, raised, collected, merge_args, download_state,
                   progress_store, progress_high, handler, future, frag, chunks,
                   dest, calc, on_progress,
                   other, auth, lookup>>

\* -------------------------------------------------------- handle_progress
mainvars == <<pc, raised, collected, merge_args>>
fragvars == <<future, frag, chunks, files>>

\* on_progress.send(download_id, current=current, total=total)
Sent(current, total) ==
    [on_progress EXCEPT !.last = current,
                        !.totals = @ + (IF current = total THEN 1 ELSE 0)]

\* A pool worker takes handle_progress, the first task submitted.
HandlerStart ==
    /\ handler.pc = "queued"
    /\ ActiveWorkers < max_workers
    /\ handler' = [handler EXCEPT !.pc = "check_state"]
    /\ UNCHANGED <<argvars, mainvars, download_state, progress_store, progress_high,
                   fragvars, temporary_dir, dest, calc, on_progress, result,
                   other, auth, lookup>>

\* if download_id not in self.download_state
HandlerCheckState ==
    /\ handler.pc = "check_state"
    /\ handler' = [handler EXCEPT !.pc =
                     IF download_id \in Keys(download_state)
                     THEN "check_store" ELSE "set_state"]
    /\ UNCHANGED <<argvars, mainvars, download_state, progress_store, progress_high,
                   fragvars, temporary_dir, dest, calc, on_progress, result,
                   other, auth, lookup>>

\* self.download_state[download_id] = DownloadState.PREPARING
HandlerSetState ==
    /\ handler.pc = "set_state"
    /\ download_state' = Put(download_state, download_id, "preparing")
    /\ handler' = [handler EXCEPT !.pc = "check_store"]
    /\ UNCHANGED <<argvars, mainvars, progress_store, progress_high, fragvars,
                   temporary_dir, dest, calc, on_progress, result,
                   other, auth, lookup>>

\* if download_id not in self.progress_store
HandlerCheckStore ==
    /\ handler.pc = "check_store"
    /\ handler' = [handler EXCEPT !.pc =
                     IF download_id \in Keys(progress_store)
                     THEN "loop" ELSE "set_store"]
    /\ UNCHANGED <<argvars, mainvars, download_state, progress_store, progress_high,
                   fragvars, temporary_dir, dest, calc, on_progress, result,
                   other, auth, lookup>>

\* self.progress_store[download_id] = 0
HandlerSetStore ==
    /\ handler.pc = "set_store"
    /\ progress_store' = Put(progress_store, download_id, 0)
    /\ progress_high' = Max(progress_high, 0)
    /\ handler' = [handler EXCEPT !.pc = "loop"]
    /\ UNCHANGED <<argvars, mainvars, download_state, fragvars,
                   temporary_dir, dest, calc, on_progress, result,
                   other, auth, lookup>>

\* if self.progress_store[download_id] < content_length
HandlerBelow ==
    /\ handler.pc = "loop"
    /\ Get(progress_store, download_id) < handler.total
    /\ handler' = [handler EXCEPT !.pc = "send"]
    /\ UNCHANGED <<argvars, mainvars, download_state, progress_store, progress_high,
                   fragvars, temporary_dir, dest, calc, on_progress, result,
                   other, auth, lookup>>

\* on_progress.send(current=self.progress_store[download_id], ...); sleep
HandlerSend ==
    /\ handler.pc = "send"
    /\ on_progress' = Sent(Get(progress_store, download_id), handler.total)
    /\ handler' = [handler EXCEPT !.pc = "loop"]
    /\ UNCHANGED <<argvars, mainvars, download_state, progress_store,
                   progress_high, fragvars, temporary_dir, dest, calc, result,
                   other, auth, lookup>>

\* elif progress >= content_length or state == STOPPED: break.  The elif is
\* reached only when the counter is not below content_length.
HandlerBreak ==
    /\ handler.pc = "loop"
    /\ ~(Get(progress_store, download_id) < handler.total)
    /\ handler' = [handler EXCEPT !.pc = "finally"]
    /\ UNCHANGED <<argvars, mainvars, download_state, progress_store, progress_high,
                   fragvars, temporary_dir, dest, calc, on_progress, result,
                   other, auth, lookup>>

\* A variant of HandlerFinally that empties progress_store instead of
\* deleting the entry of its own download id.
HandlerFinallyClear ==
    /\ handler.pc = "finally"
    /\ progress_store' = {}
    /\ on_progress' = Sent(handler.total, handler.total)
    /\ handler' = [handler EXCEPT !.pc = "done"]
    /\ UNCHANGED <<argvars, mainvars, download_state, progress_high, fragvars,
                   temporary_dir, dest, calc, result,
                   other, auth, lookup>>

\* finally: del self.progress_store[download_id]; the last send
HandlerFinally ==
    /\ handler.pc = "finally"
    /\ progress_store' = Del(progress_store, download_id)
    /\ on_progress' = Sent(handler.total, handler.total)
    /\ handler' = [handler EXCEPT !.pc = "done"]
    /\ UNCHANGED <<argvars, mainvars, download_state, progress_high, fragvars,
                   temporary_dir, dest, calc, result,
                   other, auth, lookup>>

\* -------------------------------------------------------- handle_download
othervars == <<argvars, mainvars, download_state, progress_store, progress_high, handler,
               temporary_dir, dest, calc, on_progress, result,
          other, auth, lookup>>

Failed(f, exception) ==
    [future EXCEPT ![f] = [state |-> "failed", result |-> 0,
                           exception |-> exception,
                           first |-> \A g \in Frags : future[g].state # "failed"]]

\* A pool worker takes the next handle_download of the queue.
FragmentStart(f) ==
    /\ future[f].state = "pending"
    /\ handler.pc # "queued"
    /\ \A g \in 1..(f - 1) : future[g].state # "pending"
    /\ ActiveWorkers < max_workers
    /\ future' = [future EXCEPT ![f].state = "running"]
    /\ frag' = [frag EXCEPT ![f].pc = "probe"]
    /\ UNCHANGED <<othervars, chunks, files>>

\* asks.head(url) fails: no response.
FragmentProbeFail(f) ==
    /\ frag[f].pc = "probe"
    /\ future' = Failed(f, "NetworkError")
    /\ frag' = [frag EXCEPT ![f].pc = "done"]
    /\ UNCHANGED <<othervars, chunks, files>>

\* What handle_download computes from the probe's headers before it starts
\* the chunk fetchers: headers.get("Accept-Ranges") is None for an absent
\* header and None.lower() raises; calculate_ranges may raise.
Setup(url, connections) ==
    LET accept_ranges == (url.accept = "bytes")
        conns == IF accept_ranges THEN connections ELSE 1
        calculated == calculate_ranges(url.length, conns)
    IN  [error |-> IF url.accept = "absent" THEN "AttributeError"
                   ELSE calculated.error,
         content_length |-> url.length,
         accept_ranges |-> accept_ranges,
         connections |-> conns,
         ranges |-> calculated.ranges]

\* late: the increments the fetcher wrote while the state was STOPPED.
NewChunk(range) ==
    [pc |-> "open", start |-> range[1], end |-> range[2], pos |-> 0,
     body |-> <<>>, n |-> 0, acc |-> 0, exception |-> "none", late |-> 0]

\* The probe answers (whatever its status: it is not looked at); the file is
\* pre-allocated; then the headers are read and one handle_chunk is started
\* per range, or the coordinator raises.
FragmentProbe(f) ==
    /\ frag[f].pc = "probe"
    /\ LET setup == Setup(fragments[f], max_connections)
       IN  /\ files' = [files EXCEPT ![f] = FileOf(Zeros(setup.content_length))]
           /\ IF setup.error # "none"
              THEN /\ future' = Failed(f, setup.error)
                   /\ frag' = [frag EXCEPT ![f].pc = "done",
                                           ![f].content_length = setup.content_length]
                   /\ UNCHANGED chunks
              ELSE /\ frag' = [frag EXCEPT ![f] =
                                 [pc |-> "chunks",
                                  content_length |-> setup.content_length,
                                  accept_ranges |-> setup.accept_ranges,
                                  connections |-> setup.connections,
                                  ranges |-> setup.ranges,
                                  range_header |-> NoRange,
                                  streamed |-> 0]]
                   /\ chunks' = [chunks EXCEPT ![f] =
                                   [k \in 1..Len(setup.ranges) |->
                                      NewChunk(setup.ranges[k])]]
                   /\ UNCHANGED future
    /\ UNCHANGED othervars

Fetchers(f) == 1..Len(chunks[f])

\* The nursery is being cancelled: a chunk fetcher of the fragment raised.
Cancelled(f) == \E k \in Fetchers(f) : chunks[f][k].pc = "failed"

\* A chunk fetcher of the fragment is between two awaits: no other task of
\* the fragment's event loop runs meanwhile.
InSync(f) == \E k \in Fetchers(f) : chunks[f][k].pc \in {"read", "store"}

\* The nursery block is left when every chunk fetcher has returned.
FragmentReturn(f) ==
    /\ frag[f].pc = "chunks"
    /\ \A k \in Fetchers(f) : chunks[f][k].pc = "done"
    /\ future' = [future EXCEPT ![f] = [state |-> "done",
                                        result |-> PathOf(f),
                                        exception |-> "none",
                                        first |-> FALSE]]
    /\ frag' = [frag EXCEPT ![f].pc = "done"]
    /\ chunks' = [chunks EXCEPT ![f] = <<>>]
    /\ UNCHANGED <<othervars, files>>

\* A chunk fetcher raised and the others have ended: the nursery re-raises.
FragmentRaise(f) ==
    /\ frag[f].pc = "chunks"
    /\ Cancelled(f)
    /\ \A k \in Fetchers(f) :
          chunks[f][k].pc \in {"done", "failed", "cancelled"}
    /\ LET k == CHOOSE j \in Fetchers(f) : chunks[f][j].pc = "failed"
       IN  future' = Failed(f, chunks[f][k].exception)
    /\ frag' = [frag EXCEPT ![f].pc = "done"]
    /\ chunks' = [chunks EXCEPT ![f] = <<>>]
    /\ UNCHANGED <<othervars, files>>

\* ----------------------------------------------------------- handle_chunk
chunkfixed == <<argvars, mainvars, download_state, handler, future,
                temporary_dir, dest, calc, on_progress, result,
          other, auth, lookup>>

SetChunk(f, k, c) == [chunks EXCEPT ![f][k] = c]

\* A checkpoint of fetcher k of fragment f: it may run, and is not cancelled.
AtCheckpoint(f, k, at) ==
    /\ frag[f].pc = "chunks"
    /\ k \in Fetchers(f)
    /\ chunks[f][k].pc = at
    /\ ~InSync(f)

\* to_path.open("wb"): the file is truncated.
ChunkOpen(f, k) ==
    /\ AtCheckpoint(f, k, "open")
    /\ ~Cancelled(f)
    /\ files' = [files EXCEPT ![f] = FileOf(<<>>)]
    /\ chunks' = SetChunk(f, k, [chunks[f][k] EXCEPT !.pc = "seek"])
    /\ UNCHANGED <<chunkfixed, progress_store, progress_high, frag>>

\* stream.seek(start); then session.headers["range"] is set on the session
\* the fragment's fetchers share, when ranges are accepted.
ChunkSeek(f, k) ==
    /\ AtCheckpoint(f, k, "seek")
    /\ ~Cancelled(f)
    /\ chunks' = SetChunk(f, k, [chunks[f][k] EXCEPT
                                   !.pc = "get", !.pos = chunks[f][k].start])
    /\ frag' = [frag EXCEPT ![f].range_header =
                  IF frag[f].accept_ranges
                  THEN <<chunks[f][k].start, chunks[f][k].end>>
                  ELSE frag[f].range_header]
    /\ UNCHANGED <<chunkfixed, progress_store, progress_high, files>>

\* Requests of the session that hold one of its connections.
InFlight(f) ==
    Cardinality({k \in Fetchers(f) :
                    chunks[f][k].pc \in {"body", "read", "store"}})

\* session.get(url, stream=True): the request is built from the session's
\* headers once a connection of the session is free; the response arrives.
ChunkGet(f, k) ==
    /\ AtCheckpoint(f, k, "get")
    /\ ~Cancelled(f)
    /\ InFlight(f) < frag[f].connections
    /\ chunks' = SetChunk(f, k, [chunks[f][k] EXCEPT
                    !.pc = "body",
                    !.body = ResponseBody(fragments[f], frag[f].range_header)])
    /\ UNCHANGED <<chunkfixed, progress_store, progress_high, frag, files>>

\* session.get raises: the connection fails.
ChunkGetFail(f, k) ==
    /\ AtCheckpoint(f, k, "get")
    /\ ~Cancelled(f)
    /\ chunks' = SetChunk(f, k, [chunks[f][k] EXCEPT
                    !.pc = "failed", !.exception = "NetworkError"])
    /\ UNCHANGED <<chunkfixed, progress_store, progress_high, frag, files>>

\* The DownloadState of the download id is STOPPED.
Stopped ==
    /\ download_id \in Keys(download_state)
    /\ Get(download_state, download_id) = "stopped"

\* One iteration of response.body: stream.write(chunk) at the stream's
\* position, then "if download_id not in self.progress_state: ... = 0".
ChunkWrite(f, k) ==
    /\ AtCheckpoint(f, k, "body")
    /\ ~Cancelled(f)
    /\ chunks[f][k].body # <<>>
    /\ LET c == chunks[f][k]
           n == Min(IncrementSize, Len(c.body))
       IN  /\ files' = [files EXCEPT ![f].data =
                          WriteAt(files[f].data, c.pos, SubSeq(c.body, 1, n))]
           /\ chunks' = SetChunk(f, k, [c EXCEPT
                          !.pc = "read", !.pos = c.pos + n, !.n = n,
                          !.body = SubSeq(c.body, n + 1, Len(c.body)),
                          !.late = IF Stopped THEN c.late + 1 ELSE c.late])
           /\ frag' = [frag EXCEPT ![f].streamed = frag[f].streamed + n]
    /\ progress_store' = IF download_id \in Keys(progress_store)
                         THEN progress_store
                         ELSE Put(progress_store, download_id, 0)
    /\ progress_high' = Max(progress_high, 0)
    /\ UNCHANGED chunkfixed

\* self.progress_state[download_id] += len(chunk): the read of the entry...
ChunkRead(f, k) ==
    /\ frag[f].pc = "chunks"
    /\ k \in Fetchers(f)
    /\ chunks[f][k].pc = "read"
    /\ download_id \in Keys(progress_store)
    /\ chunks' = SetChunk(f, k, [chunks[f][k] EXCEPT
                    !.pc = "store", !.acc = Get(progress_store, download_id)])
    /\ UNCHANGED <<chunkfixed, progress_store, progress_high, frag, files>>

\* ... which raises KeyError when handle_progress has deleted the entry
\* meanwhile.
ChunkReadKeyError(f, k) ==
    /\ frag[f].pc = "chunks"
    /\ k \in Fetchers(f)
    /\ chunks[f][k].pc = "read"
    /\ download_id \notin Keys(progress_store)
    /\ chunks' = SetChunk(f, k, [chunks[f][k] EXCEPT
                    !.pc = "failed", !.exception = "KeyError", !.n = 0])
    /\ UNCHANGED <<chunkfixed, progress_store, progress_high, frag, files>>

\* ... and the store of the sum.
ChunkStore(f, k) ==
    /\ frag[f].pc = "chunks"
    /\ k \in Fetchers(f)
    /\ chunks[f][k].pc = "store"
    /\ progress_store' = Put(progress_store, download_id,
                             chunks[f][k].acc + chunks[f][k].n)
    /\ progress_high' = Max(progress_high, chunks[f][k].acc + chunks[f][k].n)
    /\ chunks' = SetChunk(f, k, [chunks[f][k] EXCEPT
                    !.pc = "body", !.acc = 0, !.n = 0])
    /\ UNCHANGED <<chunkfixed, frag, files>>

\* The body is exhausted: the response and the stream are closed.
ChunkClose(f, k) ==
    /\ AtCheckpoint(f, k, "body")
    /\ ~Cancelled(f)
    /\ chunks[f][k].body = <<>>
    /\ chunks' = SetChunk(f, k, [chunks[f][k] EXCEPT !.pc = "done", !.pos = 0])
    /\ UNCHANGED <<chunkfixed, progress_store, progress_high, frag, files>>

\* A sibling raised: the fetcher is cancelled at its next checkpoint.
ChunkCancel(f, k) ==
    /\ \E at \in {"open", "seek", "get", "body"} : AtCheckpoint(f, k, at)
    /\ Cancelled(f)
    /\ chunks' = SetChunk(f, k, [chunks[f][k] EXCEPT
                    !.pc = "cancelled", !.pos = 0, !.body = <<>>])
    /\ UNCHANGED <<chunkfixed, progress_store, progress_high, frag, files>>

\* ------------------------------------------- a second download() call
\* Another call of download(), made at any time on the same downloader
\* instance or on another one, for one fragment of one byte with
\* max_fragments = max_connections = 1, with or without a progress hook of
\* its own.  Of that call the model keeps the steps that touch what the two
\* calls could share: the download_state and progress_store dictionaries of
\* its instance, and the on_progress signal of the class.
other_id == "other"
other_total == 1

NoOther == [pc |-> "absent", hook |-> FALSE, same |-> FALSE,
            handler |-> "none", chunk |-> "none",
            download_state |-> {}, progress_store |-> {},
            foreign |-> FALSE, late |-> FALSE]

\* self.download_state and self.progress_store of the second call.
OtherState == IF other.same THEN download_state ELSE other.download_state
OtherStore == IF other.same THEN progress_store ELSE other.progress_store

\* The second call moves to `new`, its instance's dictionaries to st and ps.
OtherWrites(new, st, ps) ==
    IF other.same
    THEN /\ other' = new
         /\ download_state' = st
         /\ progress_store' = ps
    ELSE /\ other' = [new EXCEPT !.download_state = st, !.progress_store = ps]
         /\ UNCHANGED <<download_state, progress_store>>

\* on_progress.send(other_id, ...): the signal belongs to the class, and
\* calls every receiver ever connected to it, the first call's hook included.
OtherSent(o) ==
    IF on_progress.connected
    THEN [o EXCEPT !.foreign = TRUE,
                   !.late = @ \/ pc \in {"returned", "raised"}]
    ELSE o

callvars == <<argvars, mainvars, progress_high, handler, future, frag, chunks,
              files, temporary_dir, dest, calc, on_progress, result, auth,
              lookup>>

\* The id is minted, the hook connected and handle_progress submitted when
\* a hook is given, handle_download submitted.
OtherSubmit ==
    /\ other.pc = "start"
    /\ other' = [other EXCEPT !.pc = "polling",
                              !.handler = IF other.hook THEN "setup" ELSE "none",
                              !.chunk = "stream"]
    /\ UNCHANGED <<callvars, download_state, progress_store>>

\* handle_progress: the two entries are created if they do not exist.
OtherHandlerSetup ==
    /\ other.handler = "setup"
    /\ OtherWrites([other EXCEPT !.handler = "loop"],
                   IF other_id \in Keys(OtherState) THEN OtherState
                   ELSE Put(OtherState, other_id, "preparing"),
                   IF other_id \in Keys(OtherStore) THEN OtherStore
                   ELSE Put(OtherStore, other_id, 0))
    /\ UNCHANGED callvars

\* handle_progress: the counter is below the total, a progress event is sent.
OtherHandlerSend ==
    /\ other.handler = "loop"
    /\ Get(OtherStore, other_id) < other_total
    /\ other' = OtherSent(other)
    /\ UNCHANGED <<callvars, download_state, progress_store>>

\* handle_progress: the counter has reached the total; the entry is deleted
\* and the last event sent.
OtherHandlerFinally ==
    /\ other.handler = "loop"
    /\ ~(Get(OtherStore, other_id) < other_total)
    /\ OtherWrites(OtherSent([other EXCEPT !.handler = "done"]),
                   OtherState, Del(OtherStore, other_id))
    /\ UNCHANGED callvars

\* handle_chunk: the one byte arrives; the entry is created if it does not
\* exist and incremented.
OtherChunkIncrement ==
    /\ other.chunk = "stream"
    /\ OtherWrites([other EXCEPT !.chunk = "done"],
                   OtherState,
                   Put(OtherStore, other_id,
                       (IF other_id \in Keys(OtherStore)
                        THEN Get(OtherStore, other_id) ELSE 0) + 1))
    /\ UNCHANGED callvars

\* download(): the polling loop is left and FINISHED stored.
OtherPoll ==
    /\ other.pc = "polling"
    /\ OtherWrites([other EXCEPT !.pc = "collecting"],
                   Put(OtherState, other_id, "finished"), OtherStore)
    /\ UNCHANGED callvars

\* download(): the result is collected, merged and moved, the executor has
\* waited for its tasks, and the call returns.
OtherReturn ==
    /\ other.pc = "collecting"
    /\ other.chunk = "done"
    /\ other.handler \in {"none", "done"}
    /\ other' = [other EXCEPT !.pc = "returned"]
    /\ UNCHANGED <<callvars, download_state, progress_store>>

OtherNext ==
    \/ OtherSubmit
    \/ OtherHandlerSetup
    \/ OtherHandlerSend
    \/ OtherHandlerFinally
    \/ OtherChunkIncrement
    \/ OtherPoll
    \/ OtherReturn

\* ------------------------------------------------------- specifications
Next ==
    \/ DownloadReject
    \/ DownloadSubmit
    \/ DownloadPoll
    \/ DownloadResult
    \/ DownloadResultRaise
    \/ DownloadMerge
    \/ DownloadMergeRaise
    \/ DownloadExit
    \/ HandlerStart
    \/ HandlerCheckState
    \/ HandlerSetState
    \/ HandlerCheckStore
    \/ HandlerSetStore
    \/ HandlerBelow
    \/ HandlerSend
    \/ HandlerBreak
    \/ HandlerFinally
    \/ \E f \in Frags : FragmentStart(f)
    \/ \E f \in Frags : FragmentProbeFail(f)
    \/ \E f \in Frags : FragmentProbe(f)
    \/ \E f \in Frags : FragmentReturn(f)
    \/ \E f \in Frags : FragmentRaise(f)
    \/ \E f \in Frags : \E k \in Fetchers(f) : ChunkOpen(f, k)
    \/ \E f \in Frags : \E k \in Fetchers(f) : ChunkSeek(f, k)
    \/ \E f \in Frags : \E k \in Fetchers(f) : ChunkGet(f, k)
    \/ \E f \in Frags : \E k \in Fetchers(f) : ChunkGetFail(f, k)
    \/ \E f \in Frags : \E k \in Fetchers(f) : ChunkWrite(f, k)
    \/ \E f \in Frags : \E k \in Fetchers(f) : ChunkRead(f, k)
    \/ \E f \in Frags : \E k \in Fetchers(f) : ChunkReadKeyError(f, k)
    \/ \E f \in Frags : \E k \in Fetchers(f) : ChunkStore(f, k)
    \/ \E f \in Frags : \E k \in Fetchers(f) : ChunkClose(f, k)
    \/ \E f \in Frags : \E k \in Fetchers(f) : ChunkCancel(f, k)

\* The engine over several fragments, each a one-byte resource served with
\* or without the Accept-Ranges header.
EngineUrls == [status : {200}, length : {1}, accept : {"bytes", "absent"}]
InitEngine ==
    InitWith(SeqsUpTo(EngineUrls, MaxFrags), 0..MaxFrags, 0..MaxConn, BOOLEAN)

\* One fragment of every length, status and Accept-Ranges header, fetched
\* over every number of connections; with and without a progress hook when
\* the server knows the resource, without one when it answers 404.
InitFragment ==
    \/ InitWith({<<url>> : url \in {u \in Urls : u.status = 200}},
                {1}, 1..MaxConn, BOOLEAN)
    \/ InitWith({<<url>> : url \in {u \in Urls : u.status # 200}},
                {1}, 1..MaxConn, {FALSE})

\* Nothing but the one download() call happens.
Alone ==
    /\ calc = CalcIdle
    /\ other = NoOther
    /\ auth = NoAuth
    /\ lookup = NoLookup

Init ==
    /\ InitEngine \/ InitFragment
    /\ Alone

Spec == Init /\ [][Next]_vars

\* The same engine, and one more download: a single fragment of WideLen
\* bytes fetched over WideConn connections, without a progress hook.
InitWide ==
    /\ InitWith({<<[status |-> 200, length |-> WideLen, accept |-> "bytes"]>>},
                {1}, {WideConn}, {FALSE})
    /\ Alone

SpecWide == (Init \/ InitWide) /\ [][Next]_vars

\* The same engine, and a download of one fragment of one byte with a
\* progress hook while a second download() call is made.
InitTwo ==
    /\ InitWith({<<[status |-> 200, length |-> 1, accept |-> "bytes"]>>},
                {1}, {1}, BOOLEAN)
    /\ other \in {[NoOther EXCEPT !.pc = "start", !.hook = h, !.same = i] :
                     h \in BOOLEAN, i \in BOOLEAN}
    /\ calc = CalcIdle
    /\ auth = NoAuth
    /\ lookup = NoLookup

NextTwo == Next \/ OtherNext

SpecTwo == (Init \/ InitTwo) /\ [][NextTwo]_vars

\* The same engine, and one more download: a single fragment fetched without
\* a progress hook (so that handle_progress, whose own time.sleep would raise
\* too, does not run) by a caller that passes a negative update_delay.
InitStop ==
    /\ fragments \in {<<url>> : url \in {u \in Urls : u.status = 200 /\ u.accept = "bytes"}}
    /\ max_fragments = 1
    /\ max_connections \in 1..MaxConn
    /\ progress_hook = FALSE
    /\ update_delay = 0 - default_update_delay
    /\ pc = "start"
    /\ collected = <<>>
    /\ merge_args = NotCalled
    /\ Fresh
    /\ Alone

NextStop == Next \/ DownloadPollRaise

SpecStop == (Init \/ InitStop) /\ [][NextStop]_vars

\* Every thread that can take a step eventually takes one: the caller of
\* download(), the pool worker running handle_progress, and the pool worker
\* running each handle_download with its chunk fetchers.
MainNext ==
    \/ DownloadReject
    \/ DownloadSubmit
    \/ DownloadPoll
    \/ DownloadResult
    \/ DownloadResultRaise
    \/ DownloadMerge
    \/ DownloadMergeRaise
    \/ DownloadExit

HandlerNext ==
    \/ HandlerStart
    \/ HandlerCheckState
    \/ HandlerSetState
    \/ HandlerCheckStore
    \/ HandlerSetStore
    \/ HandlerBelow
    \/ HandlerSend
    \/ HandlerBreak
    \/ HandlerFinally

WorkerNext(f) ==
    /\ f \in Frags
    /\ \/ FragmentStart(f)
       \/ FragmentProbeFail(f)
       \/ FragmentProbe(f)
       \/ FragmentReturn(f)
       \/ FragmentRaise(f)
       \/ \E k \in Fetchers(f) :
             \/ ChunkOpen(f, k)
             \/ ChunkSeek(f, k)
             \/ ChunkGet(f, k)
             \/ ChunkGetFail(f, k)
             \/ ChunkWrite(f, k)
             \/ ChunkRead(f, k)
             \/ ChunkReadKeyError(f, k)
             \/ ChunkStore(f, k)
             \/ ChunkClose(f, k)
             \/ ChunkCancel(f, k)

Fairness ==
    /\ WF_vars(MainNext)
    /\ WF_vars(HandlerNext)
    /\ \A f \in 1..MaxFrags : WF_vars(WorkerNext(f))

SpecFair == Init /\ [][Next]_vars /\ Fairness

\* ------------------------------------------------------------ AuthRegistry
\* auth.dicts are the dict objects there are, the first being the class
\* attribute __shared_state; auth.refs[i] is the object instance i has as
\* its __dict__; auth.expected is what a single dict would hold after the
\* same writes; auth.ret is what the last __getitem__ returned.
AuthKeys == {"gfycat", "imgur", "fourchan"}
AuthValues == {"key", "user"}
AuthMaps == {{}} \cup {{<<k, v>>} : k \in AuthKeys, v \in AuthValues}
Instances == 1..Len(auth.refs)
SharedState == 1

\* dict.update(m)
Update(d, m) == {item \in d : item[1] \notin Keys(m)} \cup m

\* The dict instance i reads and writes: self.__dict__.
DictOf(i) == auth.dicts[auth.refs[i]]

\* auth after instance i's __dict__ became d.
Written(i, d) ==
    [auth EXCEPT !.dicts[auth.refs[i]] = d, !.ret = NoRead]

authfixed == <<argvars, mainvars, download_state, progress_store,
               progress_high, handler, fragvars, temporary_dir, dest, calc,
               on_progress, result, other, lookup>>

\* A variant of AuthInit that gives the new instance a dict of its own,
\* filled from the shared one.
AuthInitOwnDict(kwargs) ==
    /\ Len(auth.refs) < MaxInstances
    /\ auth' = [auth EXCEPT
                  !.dicts = Append(@, Update(auth.dicts[SharedState], kwargs)),
                  !.refs = Append(@, Len(auth.dicts) + 1),
                  !.expected = Update(@, kwargs),
                  !.ret = NoRead]
    /\ UNCHANGED authfixed

\* AuthRegistry(**kwargs): self.__dict__ = self.__shared_state, then update.
AuthInit(kwargs) ==
    /\ Len(auth.refs) < MaxInstances
    /\ auth' = [auth EXCEPT
                  !.dicts[SharedState] = Update(@, kwargs),
                  !.refs = Append(@, SharedState),
                  !.expected = Update(@, kwargs),
                  !.ret = NoRead]
    /\ UNCHANGED authfixed

\* registry[key] = value
AuthSetItem(i, k, v) ==
    /\ auth' = [Written(i, Put(DictOf(i), k, v)) EXCEPT
                  !.expected = Put(@, k, v)]
    /\ UNCHANGED authfixed

\* registry[key]: the value, or KeyError
AuthGetItem(i, k) ==
    /\ auth' = [auth EXCEPT !.ret =
                  [key |-> k,
                   value |-> IF k \in Keys(DictOf(i)) THEN Get(DictOf(i), k)
                             ELSE "KeyError"]]
    /\ UNCHANGED authfixed

\* del registry[key], registry.pop(key): the entry is removed (KeyError
\* and nothing removed when there is none).
AuthDelItem(i, k) ==
    /\ auth' = [Written(i, Del(DictOf(i), k)) EXCEPT !.expected = Del(@, k)]
    /\ UNCHANGED authfixed

\* registry.update(m)
AuthUpdate(i, m) ==
    /\ auth' = [Written(i, Update(DictOf(i), m)) EXCEPT
                  !.expected = Update(@, m)]
    /\ UNCHANGED authfixed

\* registry.clear()
AuthClear(i) ==
    /\ auth' = [Written(i, {}) EXCEPT !.expected = {}]
    /\ UNCHANGED authfixed

NextAuth ==
    \/ \E kwargs \in AuthMaps : AuthInit(kwargs)
    \/ \E i \in Instances : \E k \in AuthKeys : \E v \in AuthValues :
          AuthSetItem(i, k, v)
    \/ \E i \in Instances : \E k \in AuthKeys : AuthGetItem(i, k)
    \/ \E i \in Instances : \E k \in AuthKeys : AuthDelItem(i, k)
    \/ \E i \in Instances : \E m \in AuthMaps : AuthUpdate(i, m)
    \/ \E i \in Instances : AuthClear(i)

InitAuth ==
    /\ InitWith({<<>>}, {1}, {1}, {FALSE})
    /\ calc = CalcIdle
    /\ other = NoOther
    /\ auth = NoAuth
    /\ lookup = NoLookup

SpecAuth == InitAuth /\ [][NextAuth]_vars

\* ----------------------------------------------------------- get_extractor
\* inspect.getmembers(extractors, predicate=inspect.isclass): the classes
\* the extractors package imports, sorted by name.
Members == <<"FourChanExtractor", "GenericExtractor", "GfycatExtractor",
             "ImgurExtractor">>
IGNORED_EXTRACTORS == {"BaseExtractor", "GenericExtractor"}

\* lookup.handles: the classes whose can_handle(url) is true for the url;
\* lookup.idx: the member the for loop is at.
lookupfixed == <<argvars, mainvars, download_state, progress_store,
                 progress_high, handler, fragvars, temporary_dir, dest, calc,
                 on_progress, result, other, auth>>

Looping ==
    /\ lookup.result = NoResult
    /\ lookup.idx \in 1..Len(Members)

\* extractor_class(*args, **kwargs) when init, the class itself otherwise.
Made(init, extractor_class) ==
    [kind |-> IF init THEN "instance" ELSE "class", of |-> extractor_class]

\* if extractor_class not in IGNORED_EXTRACTORS: false, next member.
LookupIgnore ==
    /\ Looping
    /\ Members[lookup.idx] \in IGNORED_EXTRACTORS
    /\ lookup' = [lookup EXCEPT !.idx = @ + 1]
    /\ UNCHANGED lookupfixed

\* if extractor_class.can_handle(url): false, next member.
LookupCannotHandle ==
    /\ Looping
    /\ Members[lookup.idx] \notin IGNORED_EXTRACTORS
    /\ Members[lookup.idx] \notin lookup.handles
    /\ lookup' = [lookup EXCEPT !.idx = @ + 1]
    /\ UNCHANGED lookupfixed

\* can_handle(url) is true: the class, or an instance of it, is returned.
LookupReturn ==
    /\ Looping
    /\ Members[lookup.idx] \notin IGNORED_EXTRACTORS
    /\ Members[lookup.idx] \in lookup.handles
    /\ lookup' = [lookup EXCEPT
                    !.result = Made(lookup.init, Members[lookup.idx])]
    /\ UNCHANGED lookupfixed

\* The loop ended: GenericExtractor if not init, else
\* extractor_class(*args, **kwargs), extractor_class being the loop's
\* variable, left at the last member.
LookupFallThrough ==
    /\ lookup.result = NoResult
    /\ lookup.idx = Len(Members) + 1
    /\ lookup' = [lookup EXCEPT !.result =
                    IF ~lookup.init
                    THEN [kind |-> "class", of |-> "GenericExtractor"]
                    ELSE Made(lookup.init, Members[Len(Members)])]
    /\ UNCHANGED lookupfixed

NextLookup ==
    \/ LookupIgnore
    \/ LookupCannotHandle
    \/ LookupReturn
    \/ LookupFallThrough

InitLookup ==
    /\ InitWith({<<>>}, {1}, {1}, {FALSE})
    /\ calc = CalcIdle
    /\ other = NoOther
    /\ auth = NoAuth
    /\ lookup \in [handles : SUBSET {Members[i] : i \in 1..Len(Members)},
                    init : BOOLEAN, idx : {1}, result : {NoResult}]

SpecLookup == InitLookup /\ [][NextLookup]_vars

\* --------------------------------------------- the partitioner on its own
\* _calc_ranges applied to every content_length and max_connections of the
\* bounds; the engine's variables stay as before download() is called.
InitRanges ==
    /\ InitWith({<<>>}, {1}, {1}, {FALSE})
    /\ other = NoOther
    /\ auth = NoAuth
    /\ lookup = NoLookup
    /\ calc \in [content_length : 1..MaxRangeLen,
                 max_connections : 1..MaxRangeConn,
                 called : {FALSE},
                 result : {CalcIdle.result}]

CalcReturn ==
    /\ ~calc.called
    /\ _calc_ranges(calc.content_length, calc.max_connections).error = "none"
    /\ calc' = [calc EXCEPT
                  !.called = TRUE,
                  !.result = _calc_ranges(calc.content_length,
                                          calc.max_connections)]
    /\ UNCHANGED <<argvars, mainvars, download_state, progress_store, progress_high, handler,
                   fragvars, temporary_dir, dest, on_progress, result,
                   other, auth, lookup>>

CalcRaise ==
    /\ ~calc.called
    /\ _calc_ranges(calc.content_length, calc.max_connections).error # "none"
    /\ calc' = [calc EXCEPT
                  !.called = TRUE,
                  !.result = _calc_ranges(calc.content_length,
                                          calc.max_connections)]
    /\ UNCHANGED <<argvars, mainvars, download_state, progress_store, progress_high, handler,
                   fragvars, temporary_dir, dest, on_progress, result,
                   other, auth, lookup>>

NextRanges == CalcReturn \/ CalcRaise

SpecRanges == InitRanges /\ [][NextRanges]_vars

\* ------------------------------------------------------------- properties
\* ------------------------------------------------- merge on its own
\* BaseExtractor.merge applied to every list of at most MaxMergeLen paths,
\* the empty list included; the engine's variables stay as before
\* download() is called.
PathLists == SeqsUpTo(0..(MaxPaths - 1), MaxMergeLen)

InitMerge ==
    /\ fragments = <<>>
    /\ max_fragments = 1
    /\ max_connections = 1
    /\ progress_hook = FALSE
    /\ update_delay = default_update_delay
    /\ pc = "start"
    /\ collected = <<>>
    /\ merge_args \in {[NotCalled EXCEPT !.paths = p] : p \in PathLists}
    /\ Fresh
    /\ Alone

MergeCall ==
    /\ ~merge_args.called
    /\ merge_args' = [merge_args EXCEPT
                        !.called = TRUE,
                        !.calls = merge_args.calls + 1,
                        !.merged = merge(merge_args.paths)]
    /\ UNCHANGED <<argvars, pc, raised, collected, download_state,
                   progress_store, progress_high, handler, fragvars,
                   temporary_dir, dest, calc, on_progress, result,
                   other, auth, lookup>>

SpecMerge == InitMerge /\ [][MergeCall]_vars

\* ------------------------------------------------------ Content.fragments
\* A fragments argument: whether it is a list, its items, and whether all
\* its items are str.  The variable fragments is what the property
\* content.fragments returns: [] as long as _fragments was never set.
FragmentArgs ==
    [islist : BOOLEAN, items : SeqsUpTo(EngineUrls, MaxContentLen), strs : BOOLEAN]

\* The condition of the setter.
Accepted(arg) == arg.islist /\ Len(arg.items) > 0 /\ arg.strs

contentfixed == <<max_fragments, max_connections, progress_hook, update_delay, raised,
                  collected, merge_args, download_state, progress_store,
                  progress_high, handler, fragvars, temporary_dir, dest, calc,
                  on_progress, result, other, auth, lookup>>

\* Content.__init__: self.fragments = fragments goes through the setter,
\* which stores nothing when its condition fails; the getter then creates
\* _fragments as [].
ContentInit(arg) ==
    /\ pc = "unbuilt"
    /\ fragments' = IF Accepted(arg) THEN arg.items ELSE <<>>
    /\ pc' = "built"
    /\ UNCHANGED contentfixed

\* content.fragments = arg: the setter keeps the old list when its condition
\* fails.
ContentSetFragments(arg) ==
    /\ pc = "built"
    /\ fragments' = IF Accepted(arg) THEN arg.items ELSE fragments
    /\ UNCHANGED <<pc, contentfixed>>

NextContent ==
    \/ \E arg \in FragmentArgs : ContentInit(arg)
    \/ \E arg \in FragmentArgs : ContentSetFragments(arg)

InitContent ==
    /\ fragments = <<>>
    /\ max_fragments = 1
    /\ max_connections = 1
    /\ progress_hook = FALSE
    /\ update_delay = default_update_delay
    /\ pc = "unbuilt"
    /\ collected = <<>>
    /\ merge_args = NotCalled
    /\ Fresh
    /\ Alone

SpecContent == InitContent /\ [][NextContent]_vars

\* ------------------------------------------------------------ properties
Returned == calc.called /\ calc.result.error = "none"

\* C2: for all length >= 1 and connections >= 1 the partitioner returns
\* ranges in ascending order, the first starting at 0, each starting where
\* the previous one ends, the last ending at length.
C2_RangesPartition ==
    calc.called =>
        LET r == calc.result.ranges
        IN  /\ calc.result.error = "none"
            /\ Len(r) >= 1
            /\ r[1][1] = 0
            /\ r[Len(r)][2] = calc.content_length
            /\ \A i \in 1..Len(r) : r[i][1] < r[i][2]
            /\ \A i \in 1..(Len(r) - 1) : r[i][2] = r[i + 1][1]

\* C3: whenever the partitioner returns, it returns exactly
\* min(connections, length) ranges.
C3_RangeCount ==
    Returned =>
        Len(calc.result.ranges) = Min(calc.max_connections, calc.content_length)

\* C4: the sum of (end - start + 1) over the returned ranges equals length:
\* read as the inclusive ranges of the Range header, the pairs name each
\* byte once.
C4_InclusiveSum ==
    Returned =>
        SumSeq([i \in 1..Len(calc.result.ranges) |->
                  calc.result.ranges[i][2] - calc.result.ranges[i][1] + 1])
            = calc.content_length

\* C5: for 1 <= length < connections the partitioner returns exactly length
\* ranges, the i-th starting at byte i and none extending past length.
C5_OneRangePerByte ==
    (calc.called /\ calc.content_length < calc.max_connections) =>
        LET r == calc.result.ranges
        IN  /\ calc.result.error = "none"
            /\ Len(r) = calc.content_length
            /\ \A i \in 1..Len(r) :
                  r[i][1] = i - 1 /\ r[i][2] <= calc.content_length

\* C1: after download() of a single-fragment resource returns, the file at
\* the destination has exactly the bytes of the resource, for every number
\* of connections and every interleaving of the chunk fetchers.
C1_DestinationHasResource ==
    (pc = "returned" /\ N = 1 /\ fragments[1].status = 200) =>
        dest = FileOf(BodyOf(fragments[1]))

\* C6: merge is called with the fragment paths in fragment index order,
\* path i being the one the coordinator of fragment i wrote to.
C6_MergeInFragmentOrder ==
    merge_args.called => merge_args.paths = [f \in Frags |-> PathOf(f)]

\* C6 witness: merge was called for a download of several fragments run by
\* fewer workers than fragments plus the handler.
C6_Witness ==
    /\ merge_args.called
    /\ N >= 2
    /\ max_fragments = 1
    /\ progress_hook

\* C7: when merge is about to be called (every result is collected), every
\* fragment's file exists and has the probed Content-Length as its size.
C7_FilesSizedAtMerge ==
    (pc = "collecting" /\ Len(collected) = N) =>
        \A f \in Frags :
            /\ files[f].exists
            /\ Len(files[f].data) = frag[f].content_length

\* C8: a fragment whose probe has no Accept-Ranges header, or one that is
\* not "bytes", does not fail for it and is fetched by exactly one chunk
\* fetcher covering the whole fragment, with no Range header.
C8_NoRangesOneFetcher ==
    \A f \in Frags :
        fragments[f].accept # "bytes" =>
            /\ future[f].exception # "AttributeError"
            /\ frag[f].pc = "chunks" =>
                  /\ Len(chunks[f]) = 1
                  /\ chunks[f][1].start = 0
                  /\ chunks[f][1].end = fragments[f].length
                  /\ frag[f].range_header = NoRange

\* C9: when a fragment's url answers with a non-success status, none of the
\* error page is written to a file, merge is not called, download() does not
\* return and no file exists at the destination.
C9_NotFoundRaises ==
    (\E f \in Frags : fragments[f].status # 200) =>
        /\ ~merge_args.called
        /\ pc # "returned"
        /\ dest = NoFile
        /\ \A f \in Frags : \A i \in 1..Len(files[f].data) :
              files[f].data[i] >= 0

AnyRaised ==
    \E f \in Frags :
        \/ future[f].state = "failed"
        \/ \E k \in Fetchers(f) : chunks[f][k].pc = "failed"

\* C10 (its safety part): once a fragment coordinator or a chunk fetcher has
\* raised, merge is not called, the destination is not created, download()
\* does not return, and what it leaves with is an exception.
FailureSkipsMerge ==
    AnyRaised =>
        /\ ~merge_args.called
        /\ dest = NoFile
        /\ pc # "returned"
        /\ pc \in {"exiting", "raised"} => raised # "none"

\* C10: whenever a fragment coordinator or a chunk fetcher raises,
\* download() raises, merge is never called and the destination is neither
\* created nor modified.
C10_FailureRaises ==
    /\ [](AnyRaised => FailureSkipsMerge)
    /\ (AnyRaised ~> (pc = "raised"))

\* C11: download() returns only after every fragment coordinator has
\* completed successfully, merge has been called exactly once with the
\* complete ordered path list and its result has been moved to the
\* destination; what it returns is the destination path it was given.
C11_ReturnsAfterMergeAndMove ==
    /\ result \in {"none", "to_path"}
    /\ result # "none" => pc = "returned"
    /\ pc = "returned" =>
          /\ \A f \in Frags : future[f].state = "done"
          /\ merge_args.calls = 1
          /\ merge_args.paths = [f \in Frags |-> PathOf(f)]
          /\ dest.exists
          /\ ~files[merge(merge_args.paths) + 1].exists
          /\ result = "to_path"

\* C11 witness: a download of two fragments with a progress hook returned.
C11_Witness ==
    /\ pc = "returned"
    /\ N = 2
    /\ progress_hook

\* C12: once download() has returned or raised, the temporary directory and
\* every fragment file in it are gone.
C12_TemporaryDirRemoved ==
    pc \in {"returned", "raised"} =>
        /\ ~temporary_dir
        /\ \A f \in Frags : ~files[f].exists

\* C12 witness: download() raised what merge raised, after two fragments
\* were fetched into the temporary directory.
C12_Witness ==
    /\ pc = "raised"
    /\ raised = "MergeError"
    /\ N = 2

\* C13: once download() has returned or raised, neither download_state nor
\* progress_store holds an entry for the download id.
C13_NoStateLeft ==
    pc \in {"returned", "raised"} =>
        /\ download_id \notin Keys(download_state)
        /\ download_id \notin Keys(progress_store)

\* C14: at every moment at most max_fragments handle_download calls of the
\* download are executing, with or without a progress hook.
C14_AtMostMaxFragmentsRunning ==
    Cardinality({f \in Frags : future[f].state = "running"}) <= max_fragments

\* C15: for each fragment, the number of chunk fetchers started and the
\* number of range requests in flight never exceed max_connections.
C15_AtMostMaxConnectionsFetchers ==
    \A f \in Frags :
        /\ Len(chunks[f]) <= max_connections
        /\ InFlight(f) <= max_connections

\* C16: download() called with max_fragments <= 0 or max_connections <= 0
\* fails with the assertion's error before any effect: no temporary
\* directory, no worker, no task, no request, no hook connected, and the
\* state and progress dictionaries unchanged.
C16_InvalidOptionsRejected ==
    (max_fragments <= 0 \/ max_connections <= 0) =>
        /\ pc \in {"start", "raised"}
        /\ pc = "raised" => raised = "AssertionError"
        /\ ~temporary_dir
        /\ handler.pc = "none"
        /\ ~on_progress.connected
        /\ \A f \in Frags :
              /\ future[f] = NoFuture
              /\ frag[f] = NoFrag
              /\ files[f] = NoFile
        /\ download_state = {}
        /\ progress_store = {}
        /\ ~merge_args.called
        /\ dest = NoFile

\* C16 witness: a download of some fragments with a progress hook and
\* max_connections = 0 raised.
C16_Witness ==
    /\ pc = "raised"
    /\ max_fragments >= 1
    /\ max_connections = 0
    /\ N >= 1
    /\ progress_hook

\* C17: the progress counter of the download never takes a value smaller
\* than one it held before, deletion and re-creation included.
C17_CounterNeverDecreases ==
    download_id \in Keys(progress_store) =>
        Get(progress_store, download_id) >= progress_high

\* C18: with a server that answers each Range header with exactly the bytes
\* it names, the progress counter never exceeds the sum of the fragments'
\* Content-Length.
C18_CounterAtMostTotal ==
    (/\ \A f \in Frags : fragments[f].status = 200
     /\ download_id \in Keys(progress_store)) =>
        Get(progress_store, download_id) <= get_size

\* C19: the `current` values the progress hook receives never decrease and
\* never exceed total.
C19_HookValuesMonotonic ==
    [][/\ on_progress'.last >= on_progress.last
       /\ on_progress'.last <= handler'.total]_vars

\* C20: the hook is called with current = total exactly once, by the send
\* that follows the loop: never by a send of the loop, and once when the
\* handler has ended.
C20_OneFinalSend ==
    /\ on_progress.totals <= 1
    /\ handler.pc = "done" => on_progress.totals = 1
    /\ on_progress.totals = 1 => handler.pc = "done"

\* C23: every download() call with valid options (and at least one fragment)
\* eventually returns or raises, every request and merge terminating.
C23_DownloadTerminates ==
    (max_fragments > 0 /\ max_connections > 0 /\ N >= 1)
        ~> (pc \in {"returned", "raised"})

\* C24: when merge raises, download() raises that same error, nothing is
\* created at the destination and the temporary directory is removed.
C24_MergeErrorPropagates ==
    merge_args.raised # "none" =>
        /\ pc \in {"exiting", "raised"}
        /\ raised = merge_args.raised
        /\ result = "none"
        /\ dest = NoFile
        /\ pc = "raised" => ~temporary_dir /\ \A f \in Frags : ~files[f].exists

\* C24 witness: download() raised merge's error after fetching two fragments
\* with a progress hook.
C24_Witness ==
    /\ pc = "raised"
    /\ merge_args.raised = "MergeError"
    /\ N = 2
    /\ progress_hook
    /\ dest = NoFile

\* C27: the state of the download is FINISHED only when every fragment
\* coordinator has completed without error.
C27_FinishedOnlyWhenAllDone ==
    (/\ download_id \in Keys(download_state)
     /\ Get(download_state, download_id) = "finished") =>
        \A f \in Frags : future[f].state = "done"

\* C28: when download() re-raises the error of a fragment coordinator or a
\* chunk fetcher, the state of the download is STOPPED.
C28_FailureSetsStopped ==
    (pc \in {"exiting", "raised"} /\ AnyRaised) =>
        /\ download_id \in Keys(download_state)
        /\ Get(download_state, download_id) = "stopped"

\* C29: once the state of the download is FINISHED or STOPPED it never
\* takes another value, and it never goes back to PREPARING from RUNNING.
C29_StateNeverMovesBack ==
    [][(/\ download_id \in Keys(download_state)
        /\ Get(download_state, download_id) \in {"finished", "stopped", "running"})
          => /\ download_id \in Keys(download_state')
             /\ Get(download_state', download_id) # "preparing"
             /\ Get(download_state, download_id) \in {"finished", "stopped"}
                   => Get(download_state', download_id)
                        = Get(download_state, download_id)]_vars

\* C30: from the first streamed increment (the counter is above 0) until a
\* terminal state is set, the state of the download is RUNNING.
C30_RunningOnceProgress ==
    (/\ download_id \in Keys(progress_store)
     /\ Get(progress_store, download_id) > 0
     /\ ~(/\ download_id \in Keys(download_state)
          /\ Get(download_state, download_id) \in {"finished", "stopped"})) =>
        /\ download_id \in Keys(download_state)
        /\ Get(download_state, download_id) = "running"

\* The entry of key k in dictionary d, if there is one.
Entry(d, k) == {item \in d : item[1] = k}

C22_HookSeesOwnEventsOnly ==
    /\ ~other.foreign
    /\ ~other.late

\* C25: all AuthRegistry instances share one state: every instance,
\* whenever constructed, holds the mapping the writes made through any of
\* them define, the latest write to a key being what each returns.
C25_RegistryShared ==
    /\ \A i \in Instances : DictOf(i) = auth.expected
    /\ auth.ret # NoRead =>
          auth.ret.value = IF auth.ret.key \in Keys(auth.expected)
                           THEN Get(auth.expected, auth.ret.key)
                           ELSE "KeyError"

\* C25 witness: three instances exist, entries were written, and a read of
\* a key returned its value.
C25_Witness ==
    /\ Len(auth.refs) = MaxInstances
    /\ Keys(auth.expected) = AuthKeys
    /\ auth.ret.value \in AuthValues

\* The first member, other than the ignored ones, that can handle the url.
FirstHandler ==
    LET able == {i \in 1..Len(Members) :
                    /\ Members[i] \notin IGNORED_EXTRACTORS
                    /\ Members[i] \in lookup.handles}
    IN  IF able = {} THEN "GenericExtractor"
        ELSE Members[CHOOSE i \in able : \A j \in able : i <= j]

\* C26: get_extractor returns the first extractor, BaseExtractor and
\* GenericExtractor aside, that can handle the url, and GenericExtractor if
\* none can: the class when init is false, an instance of it when true.
C26_FirstExtractorOrGeneric ==
    lookup.result # NoResult =>
        lookup.result = [kind |-> IF lookup.init THEN "instance" ELSE "class",
                         of |-> FirstHandler]

C33_GetCarriesOwnRange ==
    [][\A f \in Frags : \A k \in Fetchers(f) :
          (/\ chunks[f][k].pc = "get"
           /\ chunks'[f][k].pc = "body"
           /\ frag[f].accept_ranges)
             => frag[f].range_header = <<chunks[f][k].start, chunks[f][k].end>>]_vars

\* C34: from the start of the chunk fetchers until the fragment coordinator
\* returns, the fragment's file exists with the probed Content-Length as its
\* length: no chunk fetcher truncates, shrinks or grows it.
C34_FileKeepsProbedLength ==
    \A f \in Frags :
        frag[f].pc = "chunks"
            => /\ files[f].exists
               /\ Len(files[f].data) = frag[f].content_length

\* The byte offsets fetcher k of fragment f has written so far: from the
\* offset it sought to up to its stream position.
Offsets(f, k) ==
    IF chunks[f][k].pc \in {"body", "read", "store", "failed"}
    THEN chunks[f][k].start .. (chunks[f][k].pos - 1)
    ELSE {}

\* C35: within a fragment whose server honours the Range header, distinct
\* chunk fetchers write disjoint sets of offsets, each inside the fetcher's
\* own range start..end and below the fragment's length.
C35_WritesDisjoint ==
    \A f \in Frags :
        (frag[f].pc = "chunks" /\ fragments[f].status = 200 /\ frag[f].accept_ranges)
            => \A k \in Fetchers(f) :
                  /\ Offsets(f, k) \subseteq chunks[f][k].start .. chunks[f][k].end
                  /\ \A o \in Offsets(f, k) : o < frag[f].content_length
                  /\ \A j \in Fetchers(f) \ {k} :
                        Offsets(f, k) \cap Offsets(f, j) = {}

\* The lengths of all increments the chunk fetchers of the download have
\* streamed (written to their files) so far.
Streamed == SumSeq([f \in Frags |-> frag[f].streamed])

\* No chunk fetcher is between the write of an increment and the store of
\* its length in the counter.
Counted ==
    \A f \in Frags : \A k \in Fetchers(f) : chunks[f][k].pc \notin {"read", "store"}

\* C36: increments of the progress counter are atomic: whenever every
\* streamed increment has been counted, the counter of the download id is the
\* sum of the lengths of the increments streamed so far.
C36_CounterIsSumOfIncrements ==
    (Streamed > 0 /\ Counted)
        => /\ download_id \in Keys(progress_store)
           /\ Get(progress_store, download_id) = Streamed

\* The fragments whose handle_download has failed.
FailedFrags == {f \in Frags : future[f].state = "failed"}

\* C37: when several fragments have failed and download() raises for it,
\* the one error it raises is the error of the fragment that failed first in
\* time, whatever the fragments' indices.
C37_FirstErrorRaised ==
    (/\ pc \in {"exiting", "raised"}
     /\ raised \notin {"none", "AssertionError", "MergeError"}
     /\ Cardinality(FailedFrags) > 1)
        => \E f \in FailedFrags : future[f].first /\ raised = future[f].exception

\* C38: the default merge returns the one path of a one-element list, and
\* an element of the list for every non-empty list; the call changes no file
\* and nothing else than the record of the call.
C38_MergeReturnsListedPath ==
    /\ [](merge_args.called =>
            LET paths == merge_args.paths
            IN  /\ Len(paths) = 1 => merge_args.merged = paths[1]
                /\ Len(paths) > 0 =>
                      \E i \in 1..Len(paths) : merge_args.merged = paths[i])
    /\ [][merge_args'.called # merge_args.called
            => files' = files /\ dest' = dest /\ temporary_dir' = temporary_dir]_vars

\* merge has been applied to a list of one path.
C38_Witness ==
    /\ merge_args.called
    /\ Len(merge_args.paths) = 1
    /\ merge_args.merged = merge_args.paths[1]

\* C39: whatever fragments argument a Content was built with and whatever
\* was assigned to .fragments afterwards, the list the engine reads from
\* content.fragments is not empty.
C39_FragmentsNonEmpty ==
    pc = "built" => Len(fragments) > 0

\* C32: a chunk fetcher looks at the DownloadState before it writes an
\* increment and stops once the state is STOPPED: no chunk fetcher writes more
\* than one increment while the state of its download is STOPPED.
C32_AtMostOneWriteAfterStopped ==
    \A f \in Frags : \A k \in Fetchers(f) : chunks[f][k].late <= 1


====
